---- MODULE Spec2Model ----
(***************************************************************************)
(* Model of linear::detail::kernel (src/linear.hpp): the open-addressing,  *)
(* linear-probing hash container with backward-shift deletion and          *)
(* power-of-two resizing.  The container is instantiated as a set of       *)
(* integer keys (value_type = key_type = an integer, key extraction the    *)
(* identity, hash the identity as std::hash<int> is), which makes moved-   *)
(* from entries and destructors trivial.                                   *)
(*                                                                         *)
(* Load factors are floats in the source.  They are modelled in tenths     *)
(* (3 is 0.3f).  For every tenth t in 1..10 and every power-of-two bucket  *)
(* count up to 2^20, size_t(bucket_count * float(t/10)) equals             *)
(* (t * bucket_count) \div 10, and for every count below 200               *)
(* ceil(float(count) / float(t/10)) equals the exact ceiling of            *)
(* 10*count/t, so the integer forms below compute what the float code      *)
(* computes on the values the model reaches.                               *)
(***************************************************************************)
EXTENDS Integers, Sequences, FiniteSets, TLC

VARIABLES
    kernel,   \* the data members of the kernel object, plus how the last call ended
    last,     \* history: the last public call, its argument and what it returned
    ref       \* history: the reference set (keys inserted and not erased since)

vars == <<kernel, last, ref>>

(***************************************************************************)
(* Bounds of the model.                                                    *)
(***************************************************************************)
NumKeys == 3            \* keys used by the general specification
MaxRehashCount == 3     \* rehash(count) is called with count in 0..MaxRehashCount
MaxReserveCount == 2    \* reserve(count) is called with count in 0..MaxReserveCount

(***************************************************************************)
(* Program constants.                                                      *)
(***************************************************************************)
DefaultBucketCount == 16   \* kernel(size_t bucket_count = 16, ...)
DefaultMinLoad == 3        \* min_load_{0.3}, in tenths
DefaultMaxLoad == 7        \* max_load_{0.7}, in tenths
ShrinkFloor == 16          \* erase: size_ > 16

\* Keys whose hashes collide and whose probe runs wrap at capacity 16
\* (ideal slots 14, 15, 14, 0, 15, 1, 14, 15) and collide more at smaller ones.
KeyTable == <<14, 15, 30, 16, 31, 1, 46, 47>>
Keys == {KeyTable[i] : i \in 1..NumKeys}

NoValue == -1      \* raw storage that holds no constructed entry
NoReturn == -1     \* a loop that never reaches its exit

EmptyBucket == [has_value |-> FALSE, value |-> NoValue]

\* buckets_[index]: the vector is 0-based, a TLA+ sequence 1-based.
At(buckets, index) == buckets[index + 1]

\* bucket_vector(n): n value-initialised buckets (has_value zeroed).
NewBuckets(n) == [i \in 1..n |-> EmptyBucket]

(***************************************************************************)
(* Bit operations on naturals, as the code's |, & and >> compute them.     *)
(***************************************************************************)
RECURSIVE BitAnd(_, _)
BitAnd(a, b) ==
    IF a = 0 \/ b = 0 THEN 0
    ELSE (a % 2) * (b % 2) + 2 * BitAnd(a \div 2, b \div 2)

RECURSIVE BitOr(_, _)
BitOr(a, b) ==
    IF a = 0 THEN b
    ELSE IF b = 0 THEN a
    ELSE (IF a % 2 = 1 \/ b % 2 = 1 THEN 1 ELSE 0) + 2 * BitOr(a \div 2, b \div 2)

\* x >> n on a 64-bit word; every x of the model is below 2^30.
ShiftRight(x, n) == IF n >= 30 THEN 0 ELSE x \div (2 ^ n)

\* x |= x >> n
Smear(x, n) == BitOr(x, ShiftRight(x, n))

\* upper_power_of_two.  --x wraps 0 to 2^64 - 1, the ors leave all 64 bits
\* set, and ++x wraps back to 0: the result for 0 is 0.
upper_power_of_two(x) ==
    IF x = 0 THEN 0
    ELSE Smear(Smear(Smear(Smear(Smear(Smear(x - 1, 1), 2), 4), 8), 16), 32) + 1

\* hash_(key): std::hash of an integer key is the key itself.
Hash(key) == key

\* extract_(value): the identity for the set flavour.
Extract(value) == value

\* equal_(a, b)
KeyEqual(a, b) == a = b

\* hash & (bucket_count_ - 1); bucket_count_ - 1 wraps to all ones when
\* bucket_count_ is 0, and the and then keeps every bit.
Mask(k, x) == IF k.bucket_count_ = 0 THEN x ELSE BitAnd(x, k.bucket_count_ - 1)

index_from_key(k, key) == Mask(k, Hash(key))

index_from_value(k, value) == index_from_key(k, Extract(value))

index_add(k, index, x) == Mask(k, index + x)

\* size_t(bucket_count * load), the load in tenths
LoadSize(load, bucket_count) == (load * bucket_count) \div 10

\* std::ceil((float)count / max_load_factor()), the load in tenths
ReserveCount(count, load) == (10 * count + load - 1) \div load

(***************************************************************************)
(* The kernel object after the constructor ran.  buckets_ is the storage   *)
(* of the vector and buckets_size its size(): clear() sets the size to 0   *)
(* and leaves the storage, its contents included, allocated.               *)
(***************************************************************************)
Construct(bucket_count) ==
    LET n == upper_power_of_two(bucket_count)
    IN  [buckets_      |-> NewBuckets(n),
         buckets_size  |-> n,
         min_load_     |-> DefaultMinLoad,
         max_load_     |-> DefaultMaxLoad,
         bucket_count_ |-> n,
         size_         |-> 0,
         min_size_     |-> LoadSize(DefaultMinLoad, n),
         max_size_     |-> LoadSize(DefaultMaxLoad, n),
         status        |-> "ok",
         rehash_calls  |-> 0,
         nested        |-> FALSE]

\* The call does not return: a loop that never ends.
Hang(k) == [k EXCEPT !.status = "hang"]

\* The call ends the process: an access outside the vector's storage, or a
\* recursion that never ends and runs out of stack.
Crash(k) == [k EXCEPT !.status = "crash"]

(***************************************************************************)
(* find(key, virtual_index): the slot of key, or bucket_count_.  After     *)
(* bucket_count_ occupied slots without a match the scan is back where it  *)
(* started and repeats for ever.                                           *)
(***************************************************************************)
RECURSIVE FindLoop(_, _, _, _)
FindLoop(k, key, virtual_index, steps) ==
    IF steps >= k.bucket_count_ THEN NoReturn
    ELSE IF ~At(k.buckets_, virtual_index).has_value THEN k.bucket_count_
    ELSE IF KeyEqual(key, Extract(At(k.buckets_, virtual_index).value))
         THEN virtual_index
    ELSE FindLoop(k, key, index_add(k, virtual_index, 1), steps + 1)

find(k, key, virtual_index) == FindLoop(k, key, virtual_index, 0)

\* insert(value, virtual_index): while (buckets_[free_index].has_value)
RECURSIVE FreeIndex(_, _, _)
FreeIndex(k, free_index, steps) ==
    IF steps >= k.bucket_count_ THEN NoReturn
    ELSE IF ~At(k.buckets_, free_index).has_value THEN free_index
    ELSE FreeIndex(k, index_add(k, free_index, 1), steps + 1)

\* size_t arithmetic wraps.  The word is narrowed from 64 to 30 bits (the
\* model checker's integers have 32): a size_ of 0 still wraps to a value
\* above every capacity, and that value plus 1 wraps to 0.
SizeT(x) == x % (2 ^ 30)

\* AtMaxLoad with the comparison one entry late.
AtMaxLoadLate(k) == k.size_ = k.max_size_ + 1

\* insert(value, virtual_index): if (size_ == max_size_)
AtMaxLoad(k) == k.size_ = k.max_size_

\* rehash: if (bucket_count_ != count) { break; }
SweepBreaks(k, count) == k.bucket_count_ # count

(***************************************************************************)
(* insert(value, virtual_index) and rehash(count) call each other.         *)
(* InsertImpl returns the kernel and the slot the entry went to.           *)
(***************************************************************************)
RECURSIVE InsertImpl(_, _, _)
RECURSIVE rehash(_, _)
RECURSIVE RehashSweep(_, _, _, _, _)

InsertImpl(k, value, virtual_index) ==
    IF AtMaxLoad(k)
    THEN IF k.bucket_count_ = 0
         THEN \* rehash(0) leaves size_ == max_size_ == 0: the recursion never ends
              [k |-> Crash(k), pos |-> 0]
         ELSE LET k2 == rehash(k, k.bucket_count_ * 2)
              IN  IF k2.status # "ok"
                  THEN [k |-> k2, pos |-> 0]
                  ELSE InsertImpl(k2, value, index_from_value(k2, value))
    ELSE IF k.bucket_count_ = 0
    THEN [k |-> Crash(k), pos |-> 0]
    ELSE LET free_index == FreeIndex(k, virtual_index, 0)
         IN  IF free_index = NoReturn
             THEN [k |-> Hang(k), pos |-> 0]
             ELSE [k |-> [k EXCEPT
                          !.buckets_[free_index + 1] =
                              [has_value |-> TRUE, value |-> value],
                          !.size_ = SizeT(@ + 1)],
                   pos |-> free_index]

\* The sweep of rehash over old_buckets (old_size is old_buckets.size()).
RehashSweep(k, old_buckets, old_size, count, index) ==
    IF index >= old_size THEN k
    ELSE IF At(old_buckets, index).has_value
    THEN LET value == At(old_buckets, index).value
             r == InsertImpl(k, value, index_from_value(k, value))
             k2 == [r.k EXCEPT !.nested = @ \/ r.k.rehash_calls > k.rehash_calls]
         IN  IF k2.status # "ok" THEN k2
             ELSE IF SweepBreaks(k2, count) THEN k2
             ELSE RehashSweep(k2, old_buckets, old_size, count, index + 1)
    ELSE RehashSweep(k, old_buckets, old_size, count, index + 1)

rehash(k, count) ==
    LET n == upper_power_of_two(count)
        k1 == [k EXCEPT !.bucket_count_ = n,
                        !.buckets_ = NewBuckets(n),
                        !.buckets_size = n,
                        !.size_ = 0,
                        !.min_size_ = LoadSize(k.min_load_, n),
                        !.max_size_ = LoadSize(k.max_load_, n),
                        !.rehash_calls = @ + 1]
    IN  RehashSweep(k1, k.buckets_, k.buckets_size, count, 0)

\* reserve(count)
reserve(k, count) == rehash(k, ReserveCount(count, k.max_load_))

\* NotFound with the last slot taken for the terminal position.
NotFoundOffByOne(k, res) == res >= k.buckets_size - 1

\* insert(value): if (res == buckets_.size())
NotFound(k, res) == res = k.buckets_size

\* insert(value): the kernel, the position returned and the bool returned
insert(k, value) ==
    LET index == index_from_value(k, value)
        res == find(k, Extract(value), index)
    IN  IF res = NoReturn
        THEN [k |-> Hang(k), pos |-> 0, inserted |-> FALSE]
        ELSE IF NotFound(k, res)
        THEN LET r == InsertImpl(k, value, index)
             IN  [k |-> r.k, pos |-> r.pos, inserted |-> TRUE]
        ELSE [k |-> k, pos |-> res, inserted |-> FALSE]

(***************************************************************************)
(* erase(key).  The first loop looks for the key; the second is the        *)
(* repair pass that moves later entries of the run back into the gap.      *)
(***************************************************************************)
\* The first loop: where it stopped, and whether on a match.
RECURSIVE EraseFind(_, _, _, _)
EraseFind(k, key, index, steps) ==
    IF steps >= k.bucket_count_
    THEN [found |-> FALSE, index |-> index, returns |-> FALSE]
    ELSE IF ~At(k.buckets_, index).has_value
    THEN [found |-> FALSE, index |-> index, returns |-> TRUE]
    ELSE IF KeyEqual(key, Extract(At(k.buckets_, index).value))
    THEN [found |-> TRUE, index |-> index, returns |-> TRUE]
    ELSE EraseFind(k, key, index_add(k, index, 1), steps + 1)

\* ShouldMove without the case of a gap behind the end of the array.
ShouldMoveUnwrapped(erased_index, index, hash) ==
    erased_index < index /\ (hash <= erased_index \/ hash > index)

\* ShouldMove with an entry whose ideal slot is the gap left where it is.
ShouldMoveStrict(erased_index, index, hash) ==
    \/ (erased_index < index /\ (hash < erased_index \/ hash > index))
    \/ (erased_index > index /\ (hash < erased_index /\ hash > index))

\* ShouldMove with the wrapped case as loose as the other one.
ShouldMoveWrappedLoose(erased_index, index, hash) ==
    \/ (erased_index < index /\ (hash <= erased_index \/ hash > index))
    \/ (erased_index > index /\ (hash <= erased_index \/ hash > index))

\* The condition under which the entry at index, whose ideal slot is hash,
\* is moved into the gap at erased_index.
ShouldMove(erased_index, index, hash) ==
    \/ (erased_index < index /\ (hash <= erased_index \/ hash > index))
    \/ (erased_index > index /\ (hash <= erased_index /\ hash > index))

\* MoveBucket with the has_value flag of the slot moved from left set.
MoveBucketKeepsSource(k, erased_index, index) ==
    [k EXCEPT !.buckets_[erased_index + 1] =
                  [has_value |-> TRUE, value |-> At(k.buckets_, index).value]]

\* The move of the entry at index into the gap at erased_index: construct
\* there, destroy here, and flip the two has_value flags.
MoveBucket(k, erased_index, index) ==
    [k EXCEPT !.buckets_[erased_index + 1] =
                  [has_value |-> TRUE, value |-> At(k.buckets_, index).value],
              !.buckets_[index + 1] = EmptyBucket]

\* The second loop.  moved counts the entries moved and wrapped tells
\* whether one of them moved across the end of the array (history only).
RECURSIVE EraseRepair(_, _, _, _, _)
EraseRepair(k, erased_index, index, moved, wrapped) ==
    IF ~At(k.buckets_, index).has_value
    THEN [k |-> k, moved |-> moved, wrapped |-> wrapped]
    ELSE LET move_bucket == At(k.buckets_, index)
             hash == index_from_key(k, Extract(move_bucket.value))
         IN  IF ShouldMove(erased_index, index, hash)
             THEN EraseRepair(MoveBucket(k, erased_index, index),
                              index, index_add(k, index, 1), moved + 1,
                              wrapped \/ erased_index > index)
             ELSE EraseRepair(k, erased_index, index_add(k, index, 1), moved, wrapped)

\* erase: if (size_ < min_size_ && size_ > 16)
BelowMinLoad(k) == k.size_ < k.min_size_ /\ k.size_ > ShrinkFloor

erase(k, key) ==
    LET f == EraseFind(k, key, index_from_key(k, key), 0)
    IN  IF ~f.returns
        THEN [k |-> Hang(k), erased_count |-> 0, moved |-> 0, wrapped |-> FALSE]
        ELSE LET r == IF f.found
                      THEN EraseRepair(
                               [k EXCEPT !.buckets_[f.index + 1] = EmptyBucket,
                                         !.size_ = SizeT(@ - 1)],
                               f.index, index_add(k, f.index, 1), 0, FALSE)
                      ELSE [k |-> k, moved |-> 0, wrapped |-> FALSE]
                 k2 == IF BelowMinLoad(r.k)
                       THEN rehash(r.k, r.k.bucket_count_ \div 2)
                       ELSE r.k
             IN  [k |-> k2, erased_count |-> IF f.found THEN 1 ELSE 0,
                  moved |-> r.moved, wrapped |-> r.wrapped]

\* clear(): the destructor of an integer does nothing; buckets_.clear()
\* sets the vector's size to 0 and keeps its storage; bucket_count_ stays.
clear(k) == [k EXCEPT !.buckets_size = 0, !.size_ = 0]

\* min_load_factor(min_load)
min_load_factor(k, min_load) ==
    LET k1 == [k EXCEPT !.min_load_ = min_load,
                        !.min_size_ = LoadSize(min_load, k.bucket_count_)]
    IN  IF k1.size_ < k1.min_size_
        THEN rehash(k1, k1.bucket_count_ \div 2)
        ELSE k1

\* max_load_factor without the rehash of a container above its new band.
max_load_factor_NoRehash(k, max_load) ==
    [k EXCEPT !.max_load_ = max_load,
              !.max_size_ = LoadSize(max_load, k.bucket_count_)]

\* max_load_factor(max_load)
max_load_factor(k, max_load) ==
    LET k1 == [k EXCEPT !.max_load_ = max_load,
                        !.max_size_ = LoadSize(max_load, k.bucket_count_)]
    IN  IF k1.size_ > k1.max_size_
        THEN rehash(k1, k1.bucket_count_ * 2)
        ELSE k1

\* buckets_end(): the terminal position
buckets_end(k) == k.buckets_size

(***************************************************************************)
(* What a call that indexes buckets_ can do.  With bucket_count_ 0 the    *)
(* vector has no storage and the access is outside every allocation: the   *)
(* process ends.  After clear() the index is outside the vector but inside *)
(* its storage: a checked build aborts in operator[], an unchecked build   *)
(* reads and writes the bytes the storage still holds.                     *)
(***************************************************************************)
Outcomes(k) ==
    IF k.bucket_count_ = 0 THEN {"crash"}
    ELSE IF k.buckets_size < k.bucket_count_ THEN {"crash", "run"}
    ELSE {"run"}

\* The history fields of the kernel record start afresh with every call.
Begin(k) == [k EXCEPT !.rehash_calls = 0, !.nested = FALSE]

Called(op, arg, ret, pos, moved, wrapped) ==
    [op |-> op, arg |-> arg, ret |-> ret, pos |-> pos,
     moved |-> moved, wrapped |-> wrapped]

(***************************************************************************)
(* The public calls, one action each.  No call follows one that did not    *)
(* return.                                                                 *)
(***************************************************************************)
Insert(key) ==
    /\ kernel.status = "ok"
    /\ \E outcome \in Outcomes(kernel) :
         IF outcome = "crash"
         THEN /\ kernel' = Crash(Begin(kernel))
              /\ last' = Called("insert", key, 0, 0, 0, FALSE)
              /\ UNCHANGED ref
         ELSE LET r == insert(Begin(kernel), key)
              IN  /\ kernel' = r.k
                  /\ last' = Called("insert", key, IF r.inserted THEN 1 ELSE 0,
                                    r.pos, 0, FALSE)
                  /\ ref' = ref \cup {key}

Erase(key) ==
    /\ kernel.status = "ok"
    /\ \E outcome \in Outcomes(kernel) :
         IF outcome = "crash"
         THEN /\ kernel' = Crash(Begin(kernel))
              /\ last' = Called("erase", key, 0, 0, 0, FALSE)
              /\ UNCHANGED ref
         ELSE LET r == erase(Begin(kernel), key)
              IN  /\ kernel' = r.k
                  /\ last' = Called("erase", key, r.erased_count, 0,
                                    r.moved, r.wrapped)
                  /\ ref' = ref \ {key}

\* find(key): the position returned is recorded in last.pos
Find(key) ==
    /\ kernel.status = "ok"
    /\ \E outcome \in Outcomes(kernel) :
         IF outcome = "crash"
         THEN /\ kernel' = Crash(Begin(kernel))
              /\ last' = Called("find", key, 0, 0, 0, FALSE)
         ELSE LET res == find(kernel, key, index_from_key(kernel, key))
              IN  /\ kernel' = IF res = NoReturn THEN Hang(Begin(kernel))
                               ELSE Begin(kernel)
                  /\ last' = Called("find", key, 0, res, 0, FALSE)
    /\ UNCHANGED ref

\* clear() indexes buckets_ once for every index below bucket_count_.
Clear ==
    /\ kernel.status = "ok"
    /\ \E outcome \in Outcomes(kernel) \cup
                      (IF kernel.bucket_count_ = 0 THEN {"run"} ELSE {}) :
         IF outcome = "crash" /\ kernel.bucket_count_ > 0
         THEN /\ kernel' = Crash(Begin(kernel))
              /\ UNCHANGED ref
         ELSE /\ kernel' = clear(Begin(kernel))
              /\ ref' = {}
    /\ last' = Called("clear", 0, 0, 0, 0, FALSE)

Rehash(count) ==
    /\ kernel.status = "ok"
    /\ kernel' = rehash(Begin(kernel), count)
    /\ last' = Called("rehash", count, 0, 0, 0, FALSE)
    /\ UNCHANGED ref

Reserve(count) ==
    /\ kernel.status = "ok"
    /\ kernel' = reserve(Begin(kernel), count)
    /\ last' = Called("reserve", count, 0, 0, 0, FALSE)
    /\ UNCHANGED ref

MinLoadFactor(min_load) ==
    /\ kernel.status = "ok"
    /\ kernel' = min_load_factor(Begin(kernel), min_load)
    /\ last' = Called("min_load_factor", min_load, 0, 0, 0, FALSE)
    /\ UNCHANGED ref

MaxLoadFactor(max_load) ==
    /\ kernel.status = "ok"
    /\ kernel' = max_load_factor(Begin(kernel), max_load)
    /\ last' = Called("max_load_factor", max_load, 0, 0, 0, FALSE)
    /\ UNCHANGED ref

(***************************************************************************)
(* The general specification: a kernel constructed with any small bucket   *)
(* count or the default one, and every public call with small arguments.   *)
(***************************************************************************)
MaxInitCount == 1
InitCounts == 0..MaxInitCount \cup {DefaultBucketCount}
LoadTenths == {1, 7, 10}

Constructed(bucket_count) ==
    /\ kernel = Construct(bucket_count)
    /\ last = Called("kernel", bucket_count, 0, 0, 0, FALSE)
    /\ ref = {}

Init == \E bucket_count \in InitCounts : Constructed(bucket_count)

Next ==
    \/ \E key \in Keys : Insert(key)
    \/ \E key \in Keys : Erase(key)
    \/ \E key \in Keys : Find(key)
    \/ \E count \in 0..MaxRehashCount : Rehash(count)
    \/ \E count \in 0..MaxReserveCount : Reserve(count)
    \/ \E min_load \in LoadTenths : MinLoadFactor(min_load)
    \/ \E max_load \in LoadTenths : MaxLoadFactor(max_load)

Spec == Init /\ [][Next]_vars

(***************************************************************************)
(* What the claims speak of.                                               *)
(***************************************************************************)
\* The indices of the occupied slots of the slot array.
Occupied(k) == {i \in 0..(k.buckets_size - 1) : At(k.buckets_, i).has_value}

\* The keys stored.
StoredKeys(k) == {Extract(At(k.buckets_, i).value) : i \in Occupied(k)}

IsPowerOfTwo(n) == \E e \in 0..29 : n = 2 ^ e

\* The indices of the circular scan from index from to index to, both included.
RECURSIVE Scan(_, _, _)
Scan(k, from, to) ==
    IF from = to THEN {to} ELSE {from} \cup Scan(k, (from + 1) % k.bucket_count_, to)

\* The count the last call handed to rehash, when it was rehash or reserve;
\* before is the kernel the call was made on.
Requested(before, call) ==
    IF call.op = "reserve" THEN ReserveCount(call.arg, before.max_load_) ELSE call.arg

\* C1: rehash(count) and reserve(n) with a count >= 1 whose capacity holds
\* the stored entries without growth keep the set of stored keys and size.
C1_RehashKeepsKeys ==
    [][(/\ last'.op \in {"rehash", "reserve"}
        /\ Requested(kernel, last') >= 1
        /\ kernel.size_ <= LoadSize(kernel.max_load_,
                                    upper_power_of_two(Requested(kernel, last'))))
       => (/\ StoredKeys(kernel') = StoredKeys(kernel)
           /\ kernel'.size_ = kernel.size_)]_vars

\* C2: when a re-placement inside rehash triggers a growth rehash, every key
\* stored before the outermost call is stored after it and size is unchanged.
C2_NestedRehashKeepsKeys ==
    [][(/\ last'.op \in {"rehash", "reserve", "min_load_factor", "max_load_factor"}
        /\ kernel'.nested
        /\ kernel'.status = "ok")
       => (/\ StoredKeys(kernel') = StoredKeys(kernel)
           /\ kernel'.size_ = kernel.size_)]_vars

\* C3: probe-run invariant: for every live entry, every slot on the circular
\* scan from its ideal index to its slot is occupied.
C3_ProbeRun ==
    \A i \in Occupied(kernel) :
        \A j \in Scan(kernel, index_from_value(kernel, At(kernel.buckets_, i).value), i) :
            At(kernel.buckets_, j).has_value

\* An erase removed an entry and its repair pass moved an entry across the
\* end of the array, and entries remain that sit away from their ideal slot.
C3_Witness ==
    /\ last.op = "erase"
    /\ last.ret = 1
    /\ last.wrapped
    /\ \E i \in Occupied(kernel) :
           index_from_value(kernel, At(kernel.buckets_, i).value) # i

\* C5: uniqueness: no two occupied slots hold entries with equal keys.
C5_Uniqueness ==
    \A i, j \in Occupied(kernel) :
        i # j => ~KeyEqual(Extract(At(kernel.buckets_, i).value),
                           Extract(At(kernel.buckets_, j).value))

\* An insert of a stored key was refused next to another entry, after an
\* erase and a re-insert could have left a second copy.
C5_Witness ==
    /\ last.op = "insert"
    /\ last.ret = 0
    /\ kernel.size_ >= 2
    /\ \E i \in Occupied(kernel) :
           index_from_value(kernel, At(kernel.buckets_, i).value) # i

\* C6: after every public call that returned, size equals the number of
\* occupied slots, 0 <= size <= capacity, and capacity is a power of two.
C6_SizeInvariant ==
    (kernel.status = "ok" /\ last.op # "kernel") =>
        /\ kernel.size_ = Cardinality(Occupied(kernel))
        /\ 0 <= kernel.size_
        /\ kernel.size_ <= kernel.bucket_count_
        /\ IsPowerOfTwo(kernel.bucket_count_)

\* C7: capacity is at least 1 in every state: construction, rehash, reserve
\* and the load-factor setters yield a power of two, never 0, and one that
\* is at least the count that construction, rehash or reserve was given.
C7_CapacityAtLeastOne ==
    kernel.status = "ok" =>
        /\ kernel.bucket_count_ >= 1
        /\ IsPowerOfTwo(kernel.bucket_count_)
        /\ last.op \in {"kernel", "rehash"} => kernel.bucket_count_ >= last.arg

(***************************************************************************)
(* The default-constructed container (capacity 16, load factors 0.3 and    *)
(* 0.7) under insert, erase and find alone.                                *)
(***************************************************************************)
NumDefaultKeys == 5
DefaultKeys == {KeyTable[i] : i \in 1..NumDefaultKeys}

InitDefault == Constructed(DefaultBucketCount)

NextDefault ==
    \/ \E key \in DefaultKeys : Insert(key)
    \/ \E key \in DefaultKeys : Erase(key)
    \/ \E key \in DefaultKeys : Find(key)

SpecDefault == InitDefault /\ [][NextDefault]_vars

\* C4: round trip against the reference set: find(k) returns a position
\* other than the terminal one, whose slot is occupied and holds k, exactly
\* when k was inserted and not erased since.
C4_RoundTrip ==
    \A key \in DefaultKeys :
        LET res == find(kernel, key, index_from_key(kernel, key))
        IN  IF key \in ref
            THEN /\ res # NoReturn
                 /\ res # buckets_end(kernel)
                 /\ res < kernel.buckets_size
                 /\ At(kernel.buckets_, res).has_value
                 /\ KeyEqual(key, Extract(At(kernel.buckets_, res).value))
            ELSE res = buckets_end(kernel)

\* An erase removed a key and repaired the run behind it, and keys remain.
C4_Witness ==
    /\ last.op = "erase"
    /\ last.ret = 1
    /\ last.moved >= 2
    /\ Cardinality(ref) >= 3

(***************************************************************************)
(* Growth: the default-constructed container under insert alone, the keys  *)
(* 15, 27, 39, ... (ideal slots 15, 11, 7, 3, 15, ... at capacity 16)      *)
(* taken in order: a call inserts the next new key or a key of before.     *)
(***************************************************************************)
NumGrowKeys == 24
GrowKey(i) == 15 + 12 * i

NextGrow ==
    \E i \in 0..(NumGrowKeys - 1) :
        /\ i <= kernel.size_
        /\ Insert(GrowKey(i))

SpecGrow == InitDefault /\ [][NextGrow]_vars

\* The fields of the kernel record that are data members of the object.
Members(k) ==
    [buckets_ |-> k.buckets_, buckets_size |-> k.buckets_size,
     min_load_ |-> k.min_load_, max_load_ |-> k.max_load_,
     bucket_count_ |-> k.bucket_count_, size_ |-> k.size_,
     min_size_ |-> k.min_size_, max_size_ |-> k.max_size_]

C8_State ==
    /\ kernel.status = "ok"
    /\ kernel.size_ = Cardinality(ref)
    /\ kernel.max_size_ = LoadSize(DefaultMaxLoad, kernel.bucket_count_)
    /\ kernel.size_ <= kernel.max_size_
    /\ IsPowerOfTwo(kernel.bucket_count_)
    /\ DefaultMaxLoad * kernel.bucket_count_ >= 10 * kernel.size_
    /\ kernel.size_ <= 11 => kernel.bucket_count_ = 16
    /\ kernel.size_ = 12 => kernel.bucket_count_ = 32

C8_Step ==
    IF last'.ret = 1 /\ kernel.size_ = kernel.max_size_
    THEN kernel'.bucket_count_ = 2 * kernel.bucket_count_
    ELSE kernel'.bucket_count_ = kernel.bucket_count_

\* C8: growth schedule: an insert doubles the capacity exactly when it is
\* the insert of a new key that finds size == max_size; the capacity is 16
\* up to 11 keys and 32 with 12; size never exceeds max_size =
\* floor(0.7 * capacity); the capacity is a power of two >= N / 0.7.
C8_GrowthSchedule == []C8_State /\ [][C8_Step]_vars

\* The twelfth key went in and the capacity is 32; later the 23rd and 64.
C8_Witness ==
    /\ last.op = "insert"
    /\ last.ret = 1
    /\ kernel.size_ = 23
    /\ kernel.bucket_count_ = 64
    /\ kernel.rehash_calls = 1

\* C10: insert of an entry whose key is stored returns 'not inserted' and
\* the position of the stored entry, and changes no data member; no rehash
\* runs, also when size == max_size.
C10_InsertExisting ==
    [][(last'.op = "insert" /\ last'.arg \in StoredKeys(kernel))
       => (/\ last'.ret = 0
           /\ last'.pos < kernel.buckets_size
           /\ At(kernel.buckets_, last'.pos).has_value
           /\ KeyEqual(last'.arg, Extract(At(kernel.buckets_, last'.pos).value))
           /\ Members(kernel') = Members(kernel)
           /\ kernel'.rehash_calls = 0
           /\ kernel'.status = "ok")]_vars

\* A stored key was inserted again while size == max_size.
C10_Witness ==
    /\ last.op = "insert"
    /\ last.ret = 0
    /\ last.arg \in StoredKeys(kernel)
    /\ kernel.size_ = kernel.max_size_
    /\ kernel.size_ >= 11

(***************************************************************************)
(* Shrinking: a container constructed with 32 or 64 buckets and filled     *)
(* with the keys 0, 2, 4, ... in order, the key inserted being the one     *)
(* whose number is the current size (at capacity 32 the keys from 32 on    *)
(* collide with the first ones).  Once it holds more than 16 entries,      *)
(* where erase can shrink it, the first keys are erased and the minimum    *)
(* load factor is set to 0.3 or 0.6.                                       *)
(***************************************************************************)
NumShrinkKeys == 20
NumEraseKeys == 3
ShrinkCounts == {32, 64}
ShrinkLoads == {3, 6}
ShrinkKey(i) == 2 * i

InitShrink == \E bucket_count \in ShrinkCounts : Constructed(bucket_count)

NextShrink ==
    \/ \E i \in 0..(NumShrinkKeys - 1) :
           /\ i = kernel.size_
           /\ Insert(ShrinkKey(i))
    \/ \E i \in 0..(NumEraseKeys - 1) :
           /\ kernel.size_ > ShrinkFloor
           /\ Erase(ShrinkKey(i))
    \/ \E min_load \in ShrinkLoads :
           /\ kernel.size_ > ShrinkFloor
           /\ MinLoadFactor(min_load)

SpecShrink == InitShrink /\ [][NextShrink]_vars

\* The shrink condition as erase finds it after removing one entry of before.
ShrinkDue(before) ==
    /\ before.size_ - 1 < before.min_size_
    /\ before.size_ - 1 > ShrinkFloor

\* C9: erase of a present key halves the capacity exactly when afterwards
\* size < min_size and size > 16, and else leaves it; a capacity of 16, 32
\* or 64 under the default load factors never falls below 16; and a shrink
\* keeps every remaining key.
C9_ShrinkTrigger ==
    [][(last'.op = "erase" /\ last'.ret = 1)
       => (/\ kernel'.status = "ok"
           /\ IF ShrinkDue(kernel)
              THEN /\ 2 * kernel'.bucket_count_ = kernel.bucket_count_
                   /\ StoredKeys(kernel') = StoredKeys(kernel) \ {last'.arg}
              ELSE kernel'.bucket_count_ = kernel.bucket_count_
           /\ (/\ kernel.min_load_ = DefaultMinLoad
               /\ kernel.max_load_ = DefaultMaxLoad
               /\ kernel.bucket_count_ \in {16, 32, 64})
              => kernel'.bucket_count_ >= 16)]_vars

(***************************************************************************)
(* The cleared container: the default-constructed container under insert,  *)
(* erase, find and clear, and rehash to the default count, which gives it  *)
(* a slot array again.                                                     *)
(***************************************************************************)
\* The keys 30 and 16 (ideal slots 14 and 0 at capacity 16).
NumClearKeys == 2
ClearKeys == {KeyTable[i] : i \in 3..(2 + NumClearKeys)}

NextClear ==
    \/ \E key \in ClearKeys : Insert(key)
    \/ \E key \in ClearKeys : Erase(key)
    \/ \E key \in ClearKeys : Find(key)
    \/ Clear
    \/ Rehash(DefaultBucketCount)

SpecClear == InitDefault /\ [][NextClear]_vars

(***************************************************************************)
(* Erase of a key that is not stored: the default-constructed container    *)
(* filled with the keys 0, 2, 4, ... in order, rehashed to 64 buckets,     *)
(* and erase of the first key and of the key 1, which is never inserted.   *)
(***************************************************************************)
NumSparseKeys == 18
SparseCount == 64
AbsentKey == 1
SparseEraseKeys == {ShrinkKey(0), AbsentKey}

NextSparse ==
    \/ \E i \in 0..(NumSparseKeys - 1) :
           /\ i = kernel.size_
           /\ Insert(ShrinkKey(i))
    \/ \E key \in SparseEraseKeys : Erase(key)
    \/ Rehash(SparseCount)

SpecSparse == InitDefault /\ [][NextSparse]_vars

\* C11: erase(k) for a key k that is not stored returns 0 and leaves size,
\* capacity and every slot unchanged, also in states where size < min_size
\* and size > 16.
C11_EraseAbsent ==
    [][(last'.op = "erase" /\ last'.arg \notin StoredKeys(kernel))
       => (/\ last'.ret = 0
           /\ kernel'.status = "ok"
           /\ Members(kernel') = Members(kernel))]_vars

(***************************************************************************)
(* Traversal: begin(), operator++ and end().  An iterator is an index      *)
(* into buckets_; reading a bucket at an index outside the storage of the  *)
(* vector ends the traversal (inStorage FALSE).                            *)
(***************************************************************************)
\* empty()
empty(k) == k.size_ = 0

\* buckets_begin(): while (!bucket_it->has_value) { ++bucket_it; }
RECURSIVE FirstOccupied(_, _)
FirstOccupied(k, index) ==
    IF index >= Len(k.buckets_) THEN NoReturn
    ELSE IF At(k.buckets_, index).has_value THEN index
    ELSE FirstOccupied(k, index + 1)

buckets_begin(k) == IF empty(k) THEN k.buckets_size ELSE FirstOccupied(k, 0)

\* operator++: do { ++index_; } while (index_ != buckets_->size() &&
\* !buckets_->operator[](index_).has_value);
RECURSIVE Increment(_, _)
Increment(k, index_) ==
    LET next == index_ + 1
    IN  IF next = k.buckets_size THEN next
        ELSE IF next >= Len(k.buckets_) THEN NoReturn
        ELSE IF At(k.buckets_, next).has_value THEN next
        ELSE Increment(k, next)

\* for (it = begin(); it != end(); ++it): the positions visited, in order.
RECURSIVE Visit(_, _, _)
Visit(k, index_, visited) ==
    IF index_ = NoReturn THEN [inStorage |-> FALSE, visited |-> visited]
    ELSE IF index_ = buckets_end(k) THEN [inStorage |-> TRUE, visited |-> visited]
    ELSE Visit(k, Increment(k, index_), Append(visited, index_))

Traversal(k) == Visit(k, buckets_begin(k), <<>>)

\* C12: traversal completeness: iterating from begin() by ++ until end()
\* visits exactly size positions, all occupied, in strictly increasing slot
\* index (so all distinct, never wrapping), and begin() equals end()
\* exactly when the container is empty.
C12_Traversal ==
    kernel.status = "ok" =>
        LET t == Traversal(kernel)
        IN  /\ t.inStorage
            /\ Len(t.visited) = kernel.size_
            /\ \A n \in 1..Len(t.visited) :
                   /\ t.visited[n] < kernel.buckets_size
                   /\ At(kernel.buckets_, t.visited[n]).has_value
            /\ \A n \in 1..(Len(t.visited) - 1) : t.visited[n] < t.visited[n + 1]
            /\ (buckets_begin(kernel) = buckets_end(kernel)) <=> empty(kernel)

(***************************************************************************)
(* The general specification with the load factors kept in their band:    *)
(* a setter is called only with a value that leaves                        *)
(* 0 < min_load <= max_load <= 1.                                          *)
(***************************************************************************)
NextBand ==
    \/ \E key \in Keys : Insert(key)
    \/ \E key \in Keys : Erase(key)
    \/ \E key \in Keys : Find(key)
    \/ \E count \in 0..MaxRehashCount : Rehash(count)
    \/ \E count \in 0..MaxReserveCount : Reserve(count)
    \/ \E min_load \in LoadTenths :
           /\ min_load <= kernel.max_load_
           /\ MinLoadFactor(min_load)
    \/ \E max_load \in LoadTenths :
           /\ kernel.min_load_ <= max_load
           /\ MaxLoadFactor(max_load)

SpecBand == Init /\ [][NextBand]_vars

\* C13: termination: every call of insert, erase, find, rehash and reserve
\* returns, for every load-factor setting with 0 < min_load <= max_load <= 1
\* and every requested capacity >= 0; in particular every probe loop reaches
\* an empty slot: no call ends in the status of a loop that never exits.
C13_Termination == kernel.status # "hang"

(***************************************************************************)
(* The lifetime of entries: the slots on which a call runs the destructor  *)
(* of value_type.                                                          *)
(***************************************************************************)
\* clear(): for (index = 0; index < bucket_count_; ++index)
\*              buckets_[index].memory()->~value_type();
ClearDestroys(k) == 0..(k.bucket_count_ - 1)

\* C14: no operation interprets an unoccupied slot as an entry; in
\* particular clear() destroys exactly the occupied slots.
C14_ClearDestroysOccupied ==
    [][last'.op = "clear" => ClearDestroys(kernel) = Occupied(kernel)]_vars

(***************************************************************************)
(* operator[](key): a reference to the mapped value in the slot            *)
(* buckets_[find(key, index_from_key(key))].  The call makes no insert;    *)
(* for a key that is not stored find returns bucket_count_ and the slot    *)
(* indexed is one behind the last slot of the array.                       *)
(***************************************************************************)
\* The slot operator[] refers to.
subscript(k, key) == find(k, key, index_from_key(k, key))

\* What indexing buckets_ at index can do: inside the vector it runs; behind
\* its last slot a checked build aborts and an unchecked build forms a
\* reference to bytes that are no slot.
SubscriptOutcomes(k, index) ==
    IF index < k.buckets_size THEN {"run"} ELSE {"crash", "run"}

Subscript(key) ==
    /\ kernel.status = "ok"
    /\ \E outcome \in Outcomes(kernel) :
         IF outcome = "crash"
         THEN /\ kernel' = Crash(Begin(kernel))
              /\ last' = Called("operator[]", key, 0, 0, 0, FALSE)
         ELSE LET res == subscript(kernel, key)
              IN  IF res = NoReturn
                  THEN /\ kernel' = Hang(Begin(kernel))
                       /\ last' = Called("operator[]", key, 0, 0, 0, FALSE)
                  ELSE \E access \in SubscriptOutcomes(kernel, res) :
                           /\ kernel' = IF access = "crash"
                                        THEN Crash(Begin(kernel))
                                        ELSE Begin(kernel)
                           /\ last' = Called("operator[]", key, 0, res, 0, FALSE)
    /\ UNCHANGED ref

NextIndex ==
    \/ \E key \in Keys : Insert(key)
    \/ \E key \in Keys : Erase(key)
    \/ \E key \in Keys : Subscript(key)

SpecIndex == InitDefault /\ [][NextIndex]_vars

\* C15: operator[](k) with a key k that is not stored inserts an entry for
\* k (size grows by 1, k is stored afterwards) and refers to an occupied
\* slot with index < capacity; with a stored key it refers to that key's
\* slot and changes nothing.
C15_SubscriptInserts ==
    [][last'.op = "operator[]"
       => IF last'.arg \in StoredKeys(kernel)
          THEN /\ kernel'.status = "ok"
               /\ Members(kernel') = Members(kernel)
               /\ last'.pos < kernel.bucket_count_
               /\ At(kernel.buckets_, last'.pos).has_value
               /\ KeyEqual(last'.arg, Extract(At(kernel.buckets_, last'.pos).value))
          ELSE /\ kernel'.status = "ok"
               /\ kernel'.size_ = kernel.size_ + 1
               /\ last'.arg \in StoredKeys(kernel')
               /\ last'.pos < kernel'.bucket_count_
               /\ At(kernel'.buckets_, last'.pos).has_value]_vars

(***************************************************************************)
(* reserve(n) on the empty default-constructed container (max load 0.7),   *)
(* followed by inserts of distinct keys, the keys of the growth schedule   *)
(* in order.  The n of the reserve is recovered from the capacity it       *)
(* left: a key is inserted while fewer keys are stored than some n whose   *)
(* reserve leaves the current capacity.                                    *)
(***************************************************************************)
MaxReserveN == 32

NextReserve ==
    \/ \E n \in 0..MaxReserveN :
           /\ last.op = "kernel"
           /\ Reserve(n)
    \/ \E n \in 0..MaxReserveN :
           /\ last.op # "kernel"
           /\ upper_power_of_two(ReserveCount(n, kernel.max_load_)) = kernel.bucket_count_
           /\ kernel.size_ < n
           /\ Insert(GrowKey(kernel.size_))

SpecReserve == InitDefault /\ [][NextReserve]_vars

\* The smallest power of two that is at least x.
NextPowerOfTwo(x) ==
    CHOOSE p \in {2 ^ e : e \in 0..29} :
        /\ p >= x
        /\ \A q \in {2 ^ e : e \in 0..29} : q >= x => p <= q

\* C16: reserve(n) on an empty container with max load 0.7 sets the
\* capacity to the next power of two >= ceil(n / 0.7), and the following n
\* inserts of distinct keys all succeed without a further capacity change.
C16_Reserve ==
    [][/\ last'.op = "reserve" =>
              /\ kernel'.status = "ok"
              /\ kernel'.bucket_count_ = NextPowerOfTwo((10 * last'.arg + 6) \div 7)
       /\ last'.op = "insert" =>
              /\ kernel'.status = "ok"
              /\ last'.ret = 1
              /\ kernel'.size_ = kernel.size_ + 1
              /\ kernel'.bucket_count_ = kernel.bucket_count_]_vars

(***************************************************************************)
(* The repair rule of erase, stated with circular arcs.                    *)
(***************************************************************************)
\* h lies on the circular arc (g, i]: the slots g+1, ..., i, wrapping.
InArc(k, g, i, h) == h \in Scan(k, (g + 1) % k.bucket_count_, i)

\* The slot array after the pass that starts at slot i with the gap at g:
\* it stops at the first empty slot and moves the entry at i into the gap,
\* which makes i the gap, exactly when the entry's ideal index is outside
\* the arc (g, i].
RECURSIVE RepairRule(_, _, _)
RepairRule(k, g, i) ==
    IF ~At(k.buckets_, i).has_value THEN k.buckets_
    ELSE IF ~InArc(k, g, i, index_from_value(k, At(k.buckets_, i).value))
    THEN RepairRule([k EXCEPT !.buckets_[g + 1] = At(k.buckets_, i),
                              !.buckets_[i + 1] = EmptyBucket],
                    i, (i + 1) % k.bucket_count_)
    ELSE RepairRule(k, g, (i + 1) % k.bucket_count_)

\* The slot that holds key, and how far it is from the key's ideal slot.
SlotOf(k, key) ==
    CHOOSE i \in Occupied(k) : KeyEqual(key, Extract(At(k.buckets_, i).value))

ProbeDistance(k, key) ==
    (SlotOf(k, key) - index_from_key(k, key)) % k.bucket_count_

\* C17: erase repair rule: after removing the entry at gap g the pass walks
\* forward circularly from g+1, moves the entry at occupied slot i into g
\* (and goes on with g = i) exactly when that entry's ideal index lies
\* outside the circular arc (g, i], and stops at the first empty slot; an
\* entry at its ideal slot is never moved and no move increases an entry's
\* probe distance.
C17_RepairRule ==
    [][(last'.op = "erase" /\ last'.ret = 1 /\ kernel'.rehash_calls = 0)
       => LET g == SlotOf(kernel, last'.arg)
              removed == [kernel EXCEPT !.buckets_[g + 1] = EmptyBucket]
          IN  /\ kernel'.status = "ok"
              /\ kernel'.buckets_ =
                     RepairRule(removed, g, (g + 1) % kernel.bucket_count_)
              /\ \A i \in Occupied(kernel) \ {g} :
                     index_from_value(kernel, At(kernel.buckets_, i).value) = i
                         => At(kernel'.buckets_, i) = At(kernel.buckets_, i)
              /\ \A key \in StoredKeys(kernel') :
                     ProbeDistance(kernel', key) <= ProbeDistance(kernel, key)]_vars

\* An erase whose pass moved two entries or more, one of them across the
\* end of the array, and passed over an entry that sits at its ideal slot
\* behind the gap.
C17_Witness ==
    /\ last.op = "erase"
    /\ last.ret = 1
    /\ last.moved >= 2
    /\ last.wrapped
    /\ kernel.rehash_calls = 0
    /\ LET i == index_add(kernel, index_from_key(kernel, last.arg), 1)
       IN  /\ At(kernel.buckets_, i).has_value
           /\ index_from_value(kernel, At(kernel.buckets_, i).value) = i
           /\ At(kernel.buckets_, index_from_key(kernel, last.arg)).has_value

(***************************************************************************)
(* The lifetime of the entries of the old array in rehash.  The sweep      *)
(* hands the entry of an occupied old slot, as an rvalue, to insert,       *)
(* which move-constructs the entry in the new array; the entry in the old  *)
(* slot stays constructed, in its moved-from state.  rehash calls          *)
(* ~value_type() on no slot of old_buckets, and the destructor of          *)
(* old_buckets frees the buckets without looking at has_value.             *)
(***************************************************************************)
\* The kernel as the sweep of rehash(count) finds it.
BeforeSweep(k, count) ==
    LET n == upper_power_of_two(count)
    IN  [k EXCEPT !.bucket_count_ = n,
                  !.buckets_ = NewBuckets(n),
                  !.buckets_size = n,
                  !.size_ = 0,
                  !.min_size_ = LoadSize(k.min_load_, n),
                  !.max_size_ = LoadSize(k.max_load_, n),
                  !.rehash_calls = @ + 1]

\* The old slots whose entry the sweep moves from.
RECURSIVE SweepMoves(_, _, _, _, _)
SweepMoves(k, old_buckets, old_size, count, index) ==
    IF index >= old_size THEN {}
    ELSE IF At(old_buckets, index).has_value
    THEN LET value == At(old_buckets, index).value
             r == InsertImpl(k, value, index_from_value(k, value))
         IN  IF r.k.status # "ok" \/ SweepBreaks(r.k, count) THEN {index}
             ELSE {index} \cup SweepMoves(r.k, old_buckets, old_size, count, index + 1)
    ELSE SweepMoves(k, old_buckets, old_size, count, index + 1)

RehashMoves(k, count) ==
    SweepMoves(BeforeSweep(k, count), k.buckets_, k.buckets_size, count, 0)

\* The old slots on which rehash runs ~value_type(): none.
RehashDestroys(k, count) == {}

\* C18: entry lifecycle during rehash: for every occupied slot of the old
\* array the entry is moved into the new array and the old slot's entry is
\* then destroyed before the old array is discarded, the entries behind
\* the point where the sweep breaks included.
C18_RehashLifecycle ==
    [][(last'.op = "rehash" /\ kernel'.status = "ok")
       => \A i \in Occupied(kernel) :
              /\ i \in RehashMoves(kernel, last'.arg)
              /\ i \in RehashDestroys(kernel, last'.arg)]_vars

(***************************************************************************)
(* The upper band.                                                         *)
(***************************************************************************)
\* C19: upper band invariant: after every public operation that returned
\* (insert, erase, rehash, reserve, min_load_factor, max_load_factor with
\* max_load in (0, 1]) size <= max_size, where max_size is
\* floor(max_load * capacity) for the current capacity and max load.
C19_UpperBand ==
    (kernel.status = "ok" /\ last.op # "kernel") =>
        /\ kernel.max_size_ = (kernel.max_load_ * kernel.bucket_count_) \div 10
        /\ kernel.size_ <= kernel.max_size_

\* max_load_factor lowered the band below the size, rehashed, and the
\* container holds every key of before, as many as the new band allows.
C19_Witness ==
    /\ last.op = "max_load_factor"
    /\ kernel.status = "ok"
    /\ kernel.rehash_calls >= 1
    /\ kernel.size_ = Cardinality(ref)
    /\ kernel.size_ >= 2
    /\ kernel.size_ = kernel.max_size_

(***************************************************************************)
(* The length of the slot array.                                           *)
(***************************************************************************)
\* C20: slot-array length invariant: in every state, after clear() too,
\* the slot array has exactly bucket_count_ slots, so the not-found value
\* of the internal find (bucket_count_) is the terminal position end(),
\* and a find of a key that is not stored returns end().
C20_SlotArrayLength ==
    kernel.status = "ok" =>
        /\ kernel.buckets_size = kernel.bucket_count_
        /\ buckets_end(kernel) = kernel.bucket_count_
        /\ (last.op = "find" /\ last.arg \notin ref) => last.pos = buckets_end(kernel)

====
